---- MODULE Spec2Model ----
(***************************************************************************)
(* Model of globals_macro (src/src/lib.rs): process-wide cells declared by *)
(* globals! (GlobalVar<T> = Lazy<RwLock<T>>) and const_globals!            *)
(* (GlobalConst<T> = Lazy<T>), and the operations of GlobalVarExt and      *)
(* GlobalConstExt on them.                                                 *)
(*                                                                         *)
(* once_cell::sync::Lazy is modelled by its three internal states          *)
(* (incomplete, running, complete): the thread that finds the cell         *)
(* incomplete runs the initializer, every other thread waits until it is   *)
(* complete.  parking_lot::RwLock is modelled by its state word: a writer  *)
(* bit and a reader count.  A writer first sets the writer bit (possible   *)
(* only while it is clear) and then waits for the readers to drain; a      *)
(* reader acquires only while the writer bit is clear, so a waiting        *)
(* writer already keeps new readers out (parking_lot's task-fair policy).  *)
(* The guards returned by read() and write() are temporaries dropped at    *)
(* the end of the statement that created them.                             *)
(***************************************************************************)
EXTENDS Integers, Sequences, FiniteSets, TLC

\* Threads are 0 .. NumSpawned: the main thread 0 and the spawned threads.
NumSpawned == 2
\* Deepest nesting of calls in one thread: a call, and calls made by callbacks.
MaxDepth == 2
\* Most "+= 1" statements in the body of an update callback.
MaxCbSteps == 2
\* set(value) is called with a value of 1 .. MaxSetVal.
MaxSetVal == 2

\* <$ty>::default() of the integer type the cells are declared with.
Default == 0
\* "no value": the content of a Lazy that is not complete, a result not yet produced.
NoVal == -1

Threads == 0 .. NumSpawned
Spawned == 1 .. NumSpawned
Main == 0

\* The declarations:  globals! { A: u32, B: u32 = 3 }   const_globals! { K: u32 = 9 }
VarCells == {"A", "B"}
ConstCells == {"K"}
Cells == VarCells \cup ConstCells
Decl ==
  [c \in Cells |->
     CASE c = "A" -> [hasExpr |-> FALSE, expr |-> NoVal]
       [] c = "B" -> [hasExpr |-> TRUE, expr |-> 3]
       [] c = "K" -> [hasExpr |-> TRUE, expr |-> 9]]

\* A declaration whose expression is ignored.
InitExpr_AlwaysDefault(c) == Default

\* globals!(@init_expr $ty, $($expr)?): the expression, or the type's default.
InitExpr(c) == IF Decl[c].hasExpr THEN Decl[c].expr ELSE Default

VarOps == {"get", "get_with", "set", "update"}
ConstOps == {"get", "get_with"}
ReadOps == {"get", "get_with"}
WriteOps == {"set", "update"}

VARIABLES
  lazy,       \* lazy[c]: state of the cell's Lazy: "Uninit", "Running", "Init"
  val,        \* val[c]: the stored T (NoVal until the Lazy is complete)
  wbit,       \* wbit[c]: the RwLock's writer bit
  readers,    \* readers[c]: the RwLock's reader count
  stack,      \* stack[t]: the frames of the calls thread t is in, innermost last
  initCount,  \* initCount[c]: how often the cell's initializer closure was invoked
  initBy,     \* initBy[c]: the operation whose access ran the initializer
  committed,  \* committed[c]: the last value a finished initializer, set or update left
  lastWrite,  \* lastWrite[c]: what produced committed[c]: "none", "init", "set", "update"
  past        \* past[t]: the frames of the calls thread t made before its present one

vars == <<lazy, val, wbit, readers, stack, initCount, initBy, committed, lastWrite, past>>
lockVars == <<wbit, readers>>
ghostVars == <<initCount, initBy, committed, lastWrite, past>>

\* One call of an operation: op on cell, at pc; arg is set's value or the number
\* of "+= 1" statements of update's callback; k counts the statements done and
\* tmp is the value the statement in progress has loaded; ret is the value get
\* returns or get_with's callback saw; inner is the operation of the same cell
\* the callback has called ("none" if it has called none).
Frame(op, c, arg) ==
  [op |-> op, cell |-> c, pc |-> "force", arg |-> arg, k |-> 0, tmp |-> NoVal,
   ret |-> NoVal, inner |-> "none"]

Depth(t) == Len(stack[t])
InCall(t) == Depth(t) > 0
Top(t) == stack[t][Depth(t)]
SetTop(t, f) == [stack EXCEPT ![t] = [@ EXCEPT ![Len(@)] = f]]
At(t, pc) == InCall(t) /\ Top(t).pc = pc
Args(op) ==
  CASE op = "set" -> 1 .. MaxSetVal
    [] op = "update" -> 1 .. MaxCbSteps
    [] OTHER -> {0}

\* Statics that are initialized eagerly, before any access.
Init_Eager ==
  /\ lazy = [c \in Cells |-> "Init"]
  /\ val = [c \in Cells |-> InitExpr(c)]
  /\ wbit = [c \in VarCells |-> FALSE]
  /\ readers = [c \in VarCells |-> 0]
  /\ stack = [t \in Threads |-> <<>>]
  /\ initCount = [c \in Cells |-> 0]
  /\ initBy = [c \in Cells |-> "none"]
  /\ committed = [c \in Cells |-> InitExpr(c)]
  /\ lastWrite = [c \in Cells |-> "init"]
  /\ past = [t \in Threads |-> <<>>]

Init ==
  /\ lazy = [c \in Cells |-> "Uninit"]
  /\ val = [c \in Cells |-> NoVal]
  /\ wbit = [c \in VarCells |-> FALSE]
  /\ readers = [c \in VarCells |-> 0]
  /\ stack = [t \in Threads |-> <<>>]
  /\ initCount = [c \in Cells |-> 0]
  /\ initBy = [c \in Cells |-> "none"]
  /\ committed = [c \in Cells |-> NoVal]
  /\ lastWrite = [c \in Cells |-> "none"]
  /\ past = [t \in Threads |-> <<>>]

\* A thread calls one operation of one of the declared cells cs.
CallIn(t, cs) ==
  /\ ~InCall(t)
  /\ \E c \in cs :
       \E op \in (IF c \in VarCells THEN VarOps ELSE ConstOps) :
         \E a \in Args(op) :
           stack' = [stack EXCEPT ![t] = <<Frame(op, c, a)>>]
  /\ UNCHANGED <<lazy, val, lockVars, ghostVars>>

\* The program that uses one GlobalVar and one GlobalConst.
Call(t) == CallIn(t, {"A", "K"})

\* A Lazy that tests "not complete" instead of claiming the incomplete state:
\* a thread arriving while the initializer runs would run it again.
LazyNeedsInit_Racy(c) == lazy[c] # "Init"

\* once_cell: the Lazy is incomplete, so this thread is the one to initialize it.
LazyNeedsInit(c) == lazy[c] = "Uninit"

\* A Lazy that takes "being initialized" for complete.
LazyComplete_Early(c) == lazy[c] # "Uninit"

\* once_cell: the Lazy is complete, its value can be borrowed.
LazyComplete(c) == lazy[c] = "Init"

\* self.0 is dereferenced (Lazy::force): a complete Lazy is passed through, an
\* incomplete one is claimed and its initializer closure invoked; while another
\* thread runs the initializer the caller waits.
Force(t) ==
  /\ At(t, "force")
  /\ LET f == Top(t)
         c == f.cell
     IN \/ /\ LazyComplete(c)
           /\ stack' = SetTop(t, [f EXCEPT !.pc = IF c \in VarCells THEN "lock" ELSE "deref"])
           /\ UNCHANGED <<lazy, initCount, initBy>>
        \/ /\ ~LazyComplete(c)
           /\ LazyNeedsInit(c)
           /\ lazy' = [lazy EXCEPT ![c] = "Running"]
           /\ initCount' = [initCount EXCEPT ![c] = @ + 1]
           /\ initBy' = [initBy EXCEPT ![c] = f.op]
           /\ stack' = SetTop(t, [f EXCEPT !.pc = "init"])
  /\ UNCHANGED <<val, lockVars, committed, lastWrite, past>>

\* The initializer closure returns: RwLock::new(init_expr) for a GlobalVar (the
\* lock starts unlocked), init_expr for a GlobalConst; the Lazy is complete.
InitDone(t) ==
  /\ At(t, "init")
  /\ LET f == Top(t)
         c == f.cell
     IN /\ val' = [val EXCEPT ![c] = InitExpr(c)]
        /\ lazy' = [lazy EXCEPT ![c] = "Init"]
        /\ committed' = [committed EXCEPT ![c] = InitExpr(c)]
        /\ lastWrite' = [lastWrite EXCEPT ![c] = "init"]
        /\ stack' = SetTop(t, [f EXCEPT !.pc = IF c \in VarCells THEN "lock" ELSE "deref"])
  /\ UNCHANGED <<lockVars, initCount, initBy, past>>

\* A reader that does not test the writer bit.
CanLockShared_IgnoreWriter(c) == TRUE

\* A lock that admits one reader at a time.
CanLockShared_OneReader(c) == ~wbit[c] /\ readers[c] = 0

\* One lock shared by all the declared cells.
CanLockShared_Global(c) == \A d \in VarCells : ~wbit[d]

\* parking_lot lock_shared: possible while the writer bit is clear.
CanLockShared(c) == ~wbit[c]

\* A writer that takes the writer bit without testing it.
CanLockExclusive_NoTest(c) == TRUE

\* parking_lot lock_exclusive: the writer bit can be taken while it is clear.
CanLockExclusive(c) == ~wbit[c]

\* A writer that does not wait for the readers that are still in.
ReadersDrained_NoWait(c) == TRUE

\* parking_lot wait_for_readers: the writer holds the lock once no reader is left.
ReadersDrained(c) == readers[c] = 0

\* .read() of get and get_with.
LockShared(t) ==
  /\ At(t, "lock")
  /\ Top(t).op \in ReadOps
  /\ LET f == Top(t)
         c == f.cell
     IN /\ CanLockShared(c)
        /\ readers' = [readers EXCEPT ![c] = @ + 1]
        /\ stack' = SetTop(t, [f EXCEPT !.pc = "held"])
  /\ UNCHANGED <<lazy, val, wbit, ghostVars>>

\* .write() of set and update, first half: take the writer bit; with no reader
\* in, that is the whole acquisition (the fast path).
LockExclusive(t) ==
  /\ At(t, "lock")
  /\ Top(t).op \in WriteOps
  /\ LET f == Top(t)
         c == f.cell
     IN /\ CanLockExclusive(c)
        /\ wbit' = [wbit EXCEPT ![c] = TRUE]
        /\ stack' = SetTop(t, [f EXCEPT !.pc = IF ReadersDrained(c) THEN "held" ELSE "drain"])
  /\ UNCHANGED <<lazy, val, readers, ghostVars>>

\* .write(), second half: wait until the readers have left.
WaitForReaders(t) ==
  /\ At(t, "drain")
  /\ LET f == Top(t)
     IN /\ ReadersDrained(f.cell)
        /\ stack' = SetTop(t, [f EXCEPT !.pc = "held"])
  /\ UNCHANGED <<lazy, val, lockVars, ghostVars>>

\* A clone that takes the value out of the cell (std::mem::take).
Clone_Take(t) ==
  /\ At(t, "held")
  /\ Top(t).op = "get"
  /\ Top(t).cell \in VarCells
  /\ LET f == Top(t)
     IN /\ stack' = SetTop(t, [f EXCEPT !.pc = "release", !.ret = val[f.cell]])
        /\ val' = [val EXCEPT ![f.cell] = Default]
  /\ UNCHANGED <<lazy, lockVars, ghostVars>>

\* get: .clone() of the value behind the read guard.
Clone(t) ==
  /\ At(t, "held")
  /\ Top(t).op = "get"
  /\ Top(t).cell \in VarCells
  /\ LET f == Top(t)
     IN stack' = SetTop(t, [f EXCEPT !.pc = "release", !.ret = val[f.cell]])
  /\ UNCHANGED <<lazy, val, lockVars, ghostVars>>

\* get_with: the callback f(&T) reads the value and returns.
CallbackRead(t) ==
  /\ At(t, "held")
  /\ Top(t).op = "get_with"
  /\ Top(t).cell \in VarCells
  /\ LET f == Top(t)
     IN stack' = SetTop(t, [f EXCEPT !.pc = "release", !.ret = val[f.cell]])
  /\ UNCHANGED <<lazy, val, lockVars, ghostVars>>

\* A set that assigns to a copy of the value, not through the guard.
Replaced_Copy(c, v) == val

\* A store that writes all the GlobalVars at once, as one transaction.
Replaced_AllCells(c, v) == [d \in DOMAIN val |-> IF d \in VarCells THEN v ELSE val[d]]

\* The stored values after "*guard = v" on cell c.
Replaced(c, v) == [val EXCEPT ![c] = v]

\* set: *guard = value.
Assign(t) ==
  /\ At(t, "held")
  /\ Top(t).op = "set"
  /\ LET f == Top(t)
         c == f.cell
     IN /\ val' = Replaced(c, f.arg)
        /\ committed' = [committed EXCEPT ![c] = f.arg]
        /\ lastWrite' = [lastWrite EXCEPT ![c] = "set"]
        /\ stack' = SetTop(t, [f EXCEPT !.pc = "release"])
  /\ UNCHANGED <<lazy, lockVars, initCount, initBy, past>>

\* update: the callback f(&mut T) is a sequence of "*v += 1"; each one loads
\* the value through the reference ...
CallbackLoad(t) ==
  /\ At(t, "held")
  /\ Top(t).op = "update"
  /\ Top(t).tmp = NoVal
  /\ LET f == Top(t)
     IN stack' = SetTop(t, [f EXCEPT !.tmp = val[f.cell]])
  /\ UNCHANGED <<lazy, val, lockVars, ghostVars>>

\* ... and stores the sum; after the last statement the callback returns.
CallbackStore(t) ==
  /\ At(t, "held")
  /\ Top(t).op = "update"
  /\ Top(t).tmp # NoVal
  /\ LET f == Top(t)
         c == f.cell
         last == f.k + 1 = f.arg
     IN /\ val' = Replaced(c, f.tmp + 1)
        /\ committed' = IF last THEN [committed EXCEPT ![c] = f.tmp + 1] ELSE committed
        /\ lastWrite' = IF last THEN [lastWrite EXCEPT ![c] = "update"] ELSE lastWrite
        /\ stack' = SetTop(t, [f EXCEPT !.k = @ + 1, !.tmp = NoVal,
                                        !.pc = IF last THEN "release" ELSE "held"])
  /\ UNCHANGED <<lazy, lockVars, initCount, initBy, past>>

\* The callback of get_with or update calls an operation of a GlobalVar cell
\* (at most one such call per callback).
Reenter(t) ==
  /\ At(t, "held")
  /\ Top(t).op \in {"get_with", "update"}
  /\ Top(t).cell \in VarCells
  /\ Depth(t) < MaxDepth
  /\ Top(t).inner = "none"
  /\ Top(t).tmp = NoVal
  /\ LET f == Top(t)
     IN \E op \in VarOps : \E a \in Args(op) :
          stack' = [stack EXCEPT ![t] =
                      Append([@ EXCEPT ![Len(@)] = [f EXCEPT !.inner = op]],
                             Frame(op, f.cell, a))]
  /\ UNCHANGED <<lazy, val, lockVars, ghostVars>>

\* The call returns: the frame of the outermost call stays as the thread's
\* record of it, a call made by a callback returns into the callback.
Finish(t, f) ==
  IF Depth(t) = 1
    THEN SetTop(t, [f EXCEPT !.pc = "done"])
    ELSE [stack EXCEPT ![t] = SubSeq(@, 1, Len(@) - 1)]

\* A read guard that is forgotten, not dropped: the reader stays counted.
ReleasedShared_Leak(c) == readers

\* Drop of the read guard (unlock_shared): one reader less on c.
ReleasedShared(c) == [readers EXCEPT ![c] = @ - 1]

\* A write guard that is forgotten, not dropped: the writer bit stays set.
ReleasedExclusive_Leak(c) == wbit

\* Drop of the write guard (unlock_exclusive): the writer bit of c is cleared.
ReleasedExclusive(c) == [wbit EXCEPT ![c] = FALSE]

\* The read guard is dropped and the call returns.
UnlockShared(t) ==
  /\ At(t, "release")
  /\ Top(t).op \in ReadOps
  /\ Top(t).cell \in VarCells
  /\ LET f == Top(t)
     IN /\ readers' = ReleasedShared(f.cell)
        /\ stack' = Finish(t, f)
  /\ UNCHANGED <<lazy, val, wbit, ghostVars>>

\* The write guard is dropped and the call returns.
UnlockExclusive(t) ==
  /\ At(t, "release")
  /\ Top(t).op \in WriteOps
  /\ LET f == Top(t)
     IN /\ wbit' = ReleasedExclusive(f.cell)
        /\ stack' = Finish(t, f)
  /\ UNCHANGED <<lazy, val, readers, ghostVars>>

\* GlobalConst get / get_with: self.0.deref() is cloned or passed to the
\* callback, with no lock, and the call returns.
ConstRead(t) ==
  /\ At(t, "deref")
  /\ LET f == Top(t)
     IN stack' = Finish(t, [f EXCEPT !.ret = val[f.cell]])
  /\ UNCHANGED <<lazy, val, lockVars, ghostVars>>

Step(t) ==
  \/ Force(t)
  \/ InitDone(t)
  \/ LockShared(t)
  \/ LockExclusive(t)
  \/ WaitForReaders(t)
  \/ Clone(t)
  \/ CallbackRead(t)
  \/ Assign(t)
  \/ CallbackLoad(t)
  \/ CallbackStore(t)
  \/ Reenter(t)
  \/ UnlockShared(t)
  \/ UnlockExclusive(t)
  \/ ConstRead(t)

Next == \E t \in Threads : Call(t) \/ Step(t)

Spec == Init /\ [][Next]_vars

(***************************************************************************)
(* The counter program: every spawned thread calls update(|v| *v += 1)     *)
(* once on a GlobalVar; the main thread joins them and then calls get().   *)
(***************************************************************************)

Joined == \A t \in Spawned : At(t, "done")

SpawnUpdate(t) ==
  /\ t \in Spawned
  /\ ~InCall(t)
  /\ \E c \in VarCells : stack' = [stack EXCEPT ![t] = <<Frame("update", c, 1)>>]
  /\ UNCHANGED <<lazy, val, lockVars, ghostVars>>

JoinGet(t) ==
  /\ t = Main
  /\ ~InCall(t)
  /\ Joined
  /\ \E c \in VarCells : stack' = [stack EXCEPT ![t] = <<Frame("get", c, 0)>>]
  /\ UNCHANGED <<lazy, val, lockVars, ghostVars>>

\* No reader is in while the updates run (the get comes after the join), so
\* write() never has readers to wait for.
CounterStep(t) ==
  \/ SpawnUpdate(t)
  \/ JoinGet(t)
  \/ Force(t)
  \/ InitDone(t)
  \/ LockShared(t)
  \/ LockExclusive(t)
  \/ Clone(t)
  \/ CallbackLoad(t)
  \/ CallbackStore(t)
  \/ UnlockShared(t)
  \/ UnlockExclusive(t)

CounterNext == \E t \in Threads : CounterStep(t)

SpecCounter == Init /\ [][CounterNext]_vars

(***************************************************************************)
(* The program that uses several cells: every thread calls one operation   *)
(* of any of the declared cells, with callbacks that call no operation.    *)
(***************************************************************************)

CallAny(t) == CallIn(t, Cells)

CellsStep(t) ==
  \/ CallAny(t)
  \/ Force(t)
  \/ InitDone(t)
  \/ LockShared(t)
  \/ LockExclusive(t)
  \/ WaitForReaders(t)
  \/ Clone(t)
  \/ CallbackRead(t)
  \/ Assign(t)
  \/ CallbackLoad(t)
  \/ CallbackStore(t)
  \/ UnlockShared(t)
  \/ UnlockExclusive(t)
  \/ ConstRead(t)

CellsNext == \E t \in Threads : CellsStep(t)

SpecCells == Init /\ [][CellsNext]_vars

(***************************************************************************)
(* What the threads hold.                                                  *)
(***************************************************************************)

\* The frames <<t, i>> of calls on cell c by operations ops at one of pcs.
FramesAt(c, ops, pcs) ==
  {ti \in Threads \X (1 .. MaxDepth + 1) :
     /\ ti[2] <= Len(stack[ti[1]])
     /\ stack[ti[1]][ti[2]].cell = c
     /\ stack[ti[1]][ti[2]].op \in ops
     /\ stack[ti[1]][ti[2]].pc \in pcs}

HeldPcs == {"held", "release"}
\* Calls whose write() has returned and whose write guard is not yet dropped.
WriteHolders(c) == FramesAt(c, WriteOps, HeldPcs)
\* Calls whose read() has returned and whose read guard is not yet dropped.
ReadHolders(c) == FramesAt(c, ReadOps, HeldPcs)
\* Calls on c that are past the dereference of the Lazy.
PastForce(c) == FramesAt(c, VarOps, {"lock", "drain", "held", "release", "deref", "done"})
\* The thread whose innermost call took the step.
Moved(t) == stack'[t] # stack[t]

(***************************************************************************)
(* C1                                                                      *)
(***************************************************************************)

\* C1: the initializer of every cell, GlobalVar or GlobalConst, is invoked at
\* most once, and exactly once as soon as any call on the cell is past its
\* dereference of the Lazy, however the first accesses race.
C1_InitExactlyOnce ==
  \A c \in Cells :
    /\ initCount[c] <= 1
    /\ PastForce(c) # {} => initCount[c] = 1

\* Two first accesses race: one thread runs the initializer while another
\* waits at the same cell, and the initializer has been invoked once.
C1_Witness ==
  \E c \in Cells : \E t1, t2 \in Threads :
    /\ t1 # t2
    /\ At(t1, "init") /\ Top(t1).cell = c
    /\ At(t2, "force") /\ Top(t2).cell = c
    /\ initCount[c] = 1

(***************************************************************************)
(* C2                                                                      *)
(***************************************************************************)

\* At most one call holds write access to a cell, and then none holds read access.
WriterExcludes ==
  \A c \in VarCells :
    /\ Cardinality(WriteHolders(c)) <= 1
    /\ WriteHolders(c) # {} => ReadHolders(c) = {}

\* The stored value of an initialized cell changes only in a step of a thread
\* whose innermost call holds write access to the cell.
ChangedOnlyByWriter ==
  \A c \in VarCells :
    (lazy[c] = "Init" /\ val'[c] # val[c]) =>
      \E t \in Threads :
        /\ Moved(t)
        /\ <<t, Depth(t)>> \in WriteHolders(c)
        /\ wbit[c] /\ readers[c] = 0

\* A call on a GlobalVar obtains its result (get's clone, what get_with's
\* callback saw) only while it holds read access to the cell.
ReadOnlyByReader ==
  \A t \in Threads : \A i \in 1 .. Len(stack[t]) :
    (/\ i <= Len(stack'[t])
     /\ stack[t][i].cell \in VarCells
     /\ stack'[t][i].ret # stack[t][i].ret) =>
      /\ <<t, i>> \in ReadHolders(stack[t][i].cell)
      /\ readers[stack[t][i].cell] >= 1
      /\ WriteHolders(stack[t][i].cell) = {}

\* C2: in every state of a GlobalVar either no call holds write access, or
\* exactly one does and none holds read access; the value is read only by a
\* call holding read access and changed only by the call holding write
\* access, all through the callback.
C2_LockDiscipline ==
  /\ []WriterExcludes
  /\ [][ChangedOnlyByWriter /\ ReadOnlyByReader]_vars

\* An update callback is half way through its writes while a reader and
\* another writer of the same cell wait for the lock.
C2_Witness ==
  \E c \in VarCells : \E t, r, w \in Threads :
    /\ At(t, "held") /\ Top(t).cell = c /\ Top(t).op = "update" /\ Top(t).k = 1
    /\ At(r, "lock") /\ Top(r).cell = c /\ Top(r).op \in ReadOps
    /\ At(w, "lock") /\ Top(w).cell = c /\ Top(w).op \in WriteOps

(***************************************************************************)
(* C3                                                                      *)
(***************************************************************************)

\* The spawned threads that called update on c.
Updaters(c) == {t \in Spawned : InCall(t) /\ stack[t][1].cell = c}

\* C3: when the N threads that each incremented a counter cell once have all
\* returned, the cell holds its initial value plus N, and the get() called
\* after joining them returns that (N for a cell defaulted to 0).
C3_NoLostUpdate ==
  Joined =>
    \A c \in VarCells :
      /\ Updaters(c) # {} => val[c] = InitExpr(c) + Cardinality(Updaters(c))
      /\ (At(Main, "done") /\ Top(Main).cell = c) =>
            Top(Main).ret = InitExpr(c) + Cardinality(Updaters(c))

\* All spawned threads incremented the cell defaulted to 0 and the main
\* thread has read it back.
C3_Witness ==
  /\ Joined
  /\ Updaters("A") = Spawned
  /\ At(Main, "done") /\ Top(Main).cell = "A"
  /\ Top(Main).ret = NumSpawned

(***************************************************************************)
(* C4                                                                      *)
(***************************************************************************)

\* The frame of thread t's innermost call after the step.
TopAfter(t) == stack'[t][Depth(t)]
\* Thread t's innermost call, a get on a GlobalVar, clones the value in this step.
GetReads(t) ==
  /\ At(t, "held") /\ Top(t).op = "get" /\ Top(t).cell \in VarCells
  /\ Moved(t)

\* C4: a get() that reads the cell while the last write that took effect is a
\* set(v) returns v; also when that set was the first access to the cell.
C4_SetThenGet ==
  [][\A t \in Threads :
       (GetReads(t) /\ lastWrite[Top(t).cell] = "set") =>
         TopAfter(t).ret = committed[Top(t).cell]]_vars

\* set(2) was the first access to the cell, no other write followed, and a
\* get() of another thread has returned 2.
C4_Witness ==
  \E t1, t2 \in Threads : \E c \in VarCells :
    /\ At(t1, "done") /\ Top(t1).op = "set" /\ Top(t1).cell = c /\ Top(t1).arg = 2
    /\ At(t2, "done") /\ Top(t2).op = "get" /\ Top(t2).cell = c /\ Top(t2).ret = 2
    /\ initBy[c] = "set"
    /\ lastWrite[c] = "set"
    /\ \A t3 \in Threads \ {t1, t2} : ~InCall(t3)

(***************************************************************************)
(* C5                                                                      *)
(***************************************************************************)

\* While a call holds read access, the cell holds the complete result of the
\* last finished initializer, set or update.
ReadersSeeCommitted ==
  \A c \in VarCells :
    ReadHolders(c) # {} => (val[c] = committed[c] /\ committed[c] # NoVal)

\* What get returns, and what a get_with callback is given, is that value.
ResultIsCommitted ==
  \A t \in Threads : \A i \in 1 .. Len(stack[t]) :
    (/\ i <= Len(stack'[t])
     /\ stack[t][i].cell \in VarCells
     /\ stack'[t][i].ret # stack[t][i].ret) =>
      stack'[t][i].ret = committed[stack[t][i].cell]

\* C5: a read (get, get_with) never sees a value midway through an update
\* callback nor one that no write produced: it sees the complete result of
\* the initializer, set or update that finished last before it took the lock.
C5_NoDirtyRead ==
  /\ []ReadersSeeCommitted
  /\ [][ResultIsCommitted]_vars

\* A get_with callback has seen the result of a finished two-statement update
\* of the cell defaulted to 0.
C5_Witness ==
  \E t1, t2 \in Threads :
    /\ At(t1, "done") /\ Top(t1).op = "update" /\ Top(t1).cell = "A" /\ Top(t1).k = 2
    /\ At(t2, "done") /\ Top(t2).op = "get_with" /\ Top(t2).cell = "A"
    /\ Top(t2).ret = 2
    /\ lastWrite["A"] = "update"

(***************************************************************************)
(* C6                                                                      *)
(***************************************************************************)

\* Calls of set or update that have taken the writer bit and wait for the
\* readers to release.
WritersWaiting(c) == FramesAt(c, WriteOps, {"drain"})
\* No call holds write access to c: none is between write() and the drop of
\* its guard, and none owns the lock with all readers gone.
NoWriteAccess(c) == WriteHolders(c) = {} /\ ~(wbit[c] /\ readers[c] = 0)
\* Thread t's innermost call is a get_with about to acquire read access to c.
AboutToRead(t, c) ==
  At(t, "lock") /\ Top(t).op = "get_with" /\ Top(t).cell = c

\* A write holds the lock only with no read in flight, and no read runs
\* while a write holds it.
WriteWaitsForReads ==
  \A c \in VarCells : WriteHolders(c) # {} => (ReadHolders(c) = {} /\ readers[c] = 0)

\* C6 as stated (for calls not made from a callback): whenever no thread
\* holds write access a get_with acquires read access without waiting,
\* whatever readers hold it; a write waits for the reads in flight and keeps
\* later reads out until it completes.
C6_ReadersNeverWait ==
  /\ \A c \in VarCells : \A t \in Threads :
       (AboutToRead(t, c) /\ Depth(t) = 1 /\ NoWriteAccess(c)) => ENABLED LockShared(t)
  /\ WriteWaitsForReads

\* C6 amended: a get_with acquires read access without waiting, whatever
\* readers hold it, whenever no thread holds write access and no writer is
\* waiting for the readers to release; a write waits for the reads in flight
\* and keeps later reads out until it completes.
C6_ReadersWaitOnlyForWriters ==
  /\ \A c \in VarCells : \A t \in Threads :
       (AboutToRead(t, c) /\ NoWriteAccess(c) /\ WritersWaiting(c) = {})
         => ENABLED LockShared(t)
  /\ WriteWaitsForReads

\* Two threads are inside their get_with callbacks on the same cell at once,
\* and a third is about to acquire read access to it.
C6_Witness ==
  \E r1, r2, r3 \in Threads : \E c \in VarCells :
    /\ r1 # r2
    /\ <<r1, 1>> \in ReadHolders(c) /\ stack[r1][1].op = "get_with"
    /\ <<r2, 1>> \in ReadHolders(c) /\ stack[r2][1].op = "get_with"
    /\ AboutToRead(r3, c) /\ Depth(r3) = 1
    /\ ENABLED LockShared(r3)

(***************************************************************************)
(* C7                                                                      *)
(***************************************************************************)

\* Calls on a GlobalConst that have borrowed the value or returned.
ConstUsers(c) == FramesAt(c, ConstOps, {"deref", "done"})

\* No get or get_with of a GlobalConst is past the Lazy before the initializer
\* has completed, and each returns the initializer's result.
ConstReadsInitResult ==
  \A c \in ConstCells :
    /\ ConstUsers(c) # {} => (lazy[c] = "Init" /\ val[c] = InitExpr(c))
    /\ \A t \in Threads :
         (At(t, "done") /\ Top(t).cell = c) => Top(t).ret = InitExpr(c)

\* Once Initialized, the value stays and the initializer is not invoked again.
ConstStays ==
  \A c \in ConstCells :
    lazy[c] = "Init" =>
      (lazy'[c] = "Init" /\ val'[c] = val[c] /\ initCount'[c] = initCount[c])

\* C7: once a GlobalConst is Initialized its value never changes and its
\* initializer is never invoked again; every get and get_with observes the
\* one result of the initializer and none is served before it completed.
C7_ConstStable ==
  /\ []ConstReadsInitResult
  /\ [][ConstStays]_vars

\* Every thread has called get or get_with on the constant before any other
\* access; each has the declared value and the initializer ran once.
C7_Witness ==
  /\ \A t \in Threads :
       At(t, "done") /\ Top(t).cell = "K" /\ Top(t).ret = Decl["K"].expr
  /\ initCount["K"] = 1

(***************************************************************************)
(* C8                                                                      *)
(***************************************************************************)

\* The two states of a cell.
CellState(c) == IF lazy[c] = "Init" THEN "Initialized" ELSE "Uninitialized"
\* Calls on c that are past the dereference of the Lazy: they hold or wait
\* for the lock, use the value, or have returned.
Accessing(c) ==
  FramesAt(c, VarOps, {"lock", "drain", "held", "release", "deref", "done"})

\* A cell no operation has accessed is Uninitialized and holds no value; a
\* call is past its first step only on an Initialized cell.
InitializedByFirstAccess ==
  \A c \in Cells :
    /\ initCount[c] = 0 => (CellState(c) = "Uninitialized" /\ val[c] = NoVal)
    /\ Accessing(c) # {} => CellState(c) = "Initialized"

\* A cell becomes Initialized only in a step of a call on it, and never
\* leaves that state.
InitializedForGood ==
  \A c \in Cells :
    /\ CellState(c) = "Initialized" => CellState(c)' = "Initialized"
    /\ (CellState(c) = "Uninitialized" /\ CellState(c)' = "Initialized") =>
         \E t \in Threads : Moved(t) /\ InCall(t) /\ Top(t).cell = c

\* C8: a cell is Uninitialized until its first access; the first access, by
\* whichever operation, makes it Initialized before the operation touches
\* the value; it never becomes Uninitialized again.
C8_TwoStates ==
  /\ []InitializedByFirstAccess
  /\ [][InitializedForGood]_vars

\* The GlobalVar was initialized by a set, the GlobalConst by a get_with, and
\* both calls have returned.
C8_Witness ==
  /\ initBy["A"] = "set" /\ CellState("A") = "Initialized"
  /\ initBy["K"] = "get_with" /\ CellState("K") = "Initialized"
  /\ \E t1, t2 \in Threads :
       /\ At(t1, "done") /\ Top(t1).cell = "A" /\ Top(t1).op = "set"
       /\ At(t2, "done") /\ Top(t2).cell = "K" /\ Top(t2).op = "get_with"

(***************************************************************************)
(* C9                                                                      *)
(***************************************************************************)

\* C9 as stated: a get_with or update whose callback has called get,
\* get_with, set or update on the same cell never completes.
C9_ReentrantNeverCompletes ==
  \A t \in Threads :
    (InCall(t) /\ stack[t][1].inner # "none") => stack[t][1].pc # "done"

\* A call whose callback is an update callback, or has called set or update,
\* on the same cell stays in its callback with the inner call unfinished.
ReentrantWriteStuck ==
  \A t \in Threads : \A i \in 1 .. Len(stack[t]) :
    (/\ stack[t][i].inner # "none"
     /\ (stack[t][i].op = "update" \/ stack[t][i].inner \in WriteOps)) =>
      (stack[t][i].pc = "held" /\ Len(stack[t]) > i)

\* Thread t's get_with callback has called get or get_with on the same cell
\* c, and the inner call waits behind a writer that waits for the readers.
ReadBehindWriter(t, c) ==
  /\ Depth(t) >= 2
  /\ At(t, "lock") /\ Top(t).op \in ReadOps /\ Top(t).cell = c
  /\ <<t, Depth(t) - 1>> \in ReadHolders(c)
  /\ WritersWaiting(c) # {}

\* That situation never ends.
ReadBehindWriterStuck ==
  \A t \in Threads : \A c \in VarCells :
    ReadBehindWriter(t, c) => ReadBehindWriter(t, c)'

\* C9 amended: an update whose callback calls any operation of the same
\* cell, and a get_with whose callback calls set or update on it, never
\* complete; a get_with whose callback calls get or get_with on it is stuck
\* for good when a writer is waiting for the lock as the inner call
\* acquires it (otherwise the inner read is granted).
C9_ReentrantDeadlocks ==
  /\ []ReentrantWriteStuck
  /\ [][ReadBehindWriterStuck]_vars

\* An update callback has called get on its own cell and the inner get waits
\* for the lock its own thread holds.
C9_Witness ==
  \E t \in Threads :
    /\ Depth(t) = 2
    /\ stack[t][1].op = "update" /\ stack[t][1].inner = "get"
    /\ stack[t][1].pc = "held"
    /\ At(t, "lock") /\ Top(t).cell = stack[t][1].cell
    /\ ~ENABLED LockShared(t)

(***************************************************************************)
(* C10                                                                     *)
(***************************************************************************)

\* The cell of the call in which thread t takes the step.
MovedCell(t) == IF InCall(t) THEN Top(t).cell ELSE stack'[t][1].cell

\* A step of a call on one cell leaves every other cell's initialization
\* state, value and lock as they are.
OtherCellsUntouched ==
  \A t \in Threads :
    Moved(t) =>
      \A d \in Cells \ {MovedCell(t)} :
        /\ lazy'[d] = lazy[d]
        /\ val'[d] = val[d]
        /\ d \in VarCells => (wbit'[d] = wbit[d] /\ readers'[d] = readers[d])

\* Whether a call can go on depends on its own cell alone: it waits only for
\* its cell's initializer, writer bit or readers.
WaitsOnlyForOwnCell ==
  \A t \in Threads :
    InCall(t) =>
      LET f == Top(t)
          c == f.cell
      IN /\ (f.pc = "force" /\ lazy[c] # "Running") => ENABLED Force(t)
         /\ (f.pc = "lock" /\ f.op \in ReadOps /\ ~wbit[c]) => ENABLED LockShared(t)
         /\ (f.pc = "lock" /\ f.op \in WriteOps /\ ~wbit[c]) => ENABLED LockExclusive(t)
         /\ (f.pc = "drain" /\ readers[c] = 0) => ENABLED WaitForReaders(t)

\* C10: an operation on one cell leaves every other cell's initialization
\* state, value and lock unchanged and never waits for another cell's lock.
C10_CellsIndependent ==
  /\ []WaitsOnlyForOwnCell
  /\ [][OtherCellsUntouched]_vars

\* While one thread is inside an update callback on B, holding write access,
\* another thread has acquired A's lock and a third has read the constant.
C10_Witness ==
  \E t1, t2, t3 \in Threads :
    /\ At(t1, "held") /\ Top(t1).cell = "B" /\ Top(t1).op = "update" /\ Top(t1).k = 1
    /\ At(t2, "held") /\ Top(t2).cell = "A"
    /\ At(t3, "done") /\ Top(t3).cell = "K"
    /\ val["B"] = Decl["B"].expr + 1

(***************************************************************************)
(* C11                                                                     *)
(***************************************************************************)

\* What a thread that is inside a call does next, when callbacks return and
\* call no operation.
Run(t) ==
  \/ Force(t)
  \/ InitDone(t)
  \/ LockShared(t)
  \/ LockExclusive(t)
  \/ WaitForReaders(t)
  \/ Clone(t)
  \/ CallbackRead(t)
  \/ Assign(t)
  \/ CallbackLoad(t)
  \/ CallbackStore(t)
  \/ UnlockShared(t)
  \/ UnlockExclusive(t)
  \/ ConstRead(t)

FairNext == \E t \in Threads : Call(t) \/ Run(t)

\* Fair scheduling: a thread that can go on with its call eventually does.
SpecFair == Init /\ [][FairNext]_vars /\ \A t \in Threads : WF_vars(Run(t))

\* A call that cannot take its next step waits for its own cell: for the
\* initializer another thread runs, for the writer bit, or for the readers.
BlocksOnlyOnOwnCell ==
  \A t \in Threads :
    (InCall(t) /\ ~At(t, "done") /\ ~ENABLED Run(t)) =>
      LET f == Top(t)
          c == f.cell
      IN \/ f.pc = "force" /\ lazy[c] = "Running"
         \/ f.pc = "lock" /\ wbit[c]
         \/ f.pc = "drain" /\ readers[c] > 0

\* C11: a call blocks only while it waits for its own cell, and under fair
\* scheduling, with callbacks that terminate and call no operation, every
\* call of get, get_with, set or update that a thread has started eventually
\* returns.
C11_EveryCallReturns ==
  /\ []BlocksOnlyOnOwnCell
  /\ \A t \in Threads : InCall(t) ~> At(t, "done")

\* A call waits for the lock of a cell another thread holds write access to,
\* in the middle of its update callback.
C11_Witness ==
  \E t, w \in Threads : \E c \in VarCells :
    /\ At(t, "lock") /\ Top(t).cell = c
    /\ At(w, "held") /\ Top(w).cell = c /\ Top(w).op = "update" /\ Top(w).k = 1
    /\ ~ENABLED Run(t)

(***************************************************************************)
(* C12                                                                     *)
(***************************************************************************)

\* The program that uses two cells one after the other: the main thread
\* calls set on A and then set on B, every spawned thread calls get on A and
\* then get on B.
PairOp(t) == IF t = Main THEN "set" ELSE "get"

\* The thread's first call, on A.
FirstOnA(t) ==
  /\ ~InCall(t)
  /\ \E a \in Args(PairOp(t)) :
       stack' = [stack EXCEPT ![t] = <<Frame(PairOp(t), "A", a)>>]
  /\ UNCHANGED <<lazy, val, lockVars, ghostVars>>

\* The first call has returned; the thread keeps its record and calls the
\* same operation on B.
ThenOnB(t) ==
  /\ At(t, "done")
  /\ past[t] = <<>>
  /\ past' = [past EXCEPT ![t] = Append(@, Top(t))]
  /\ \E a \in Args(PairOp(t)) :
       stack' = [stack EXCEPT ![t] = <<Frame(PairOp(t), "B", a)>>]
  /\ UNCHANGED <<lazy, val, lockVars, initCount, initBy, committed, lastWrite>>

PairStep(t) ==
  \/ FirstOnA(t)
  \/ ThenOnB(t)
  \/ Force(t)
  \/ InitDone(t)
  \/ LockShared(t)
  \/ LockExclusive(t)
  \/ WaitForReaders(t)
  \/ Clone(t)
  \/ Assign(t)
  \/ UnlockShared(t)
  \/ UnlockExclusive(t)

PairNext == \E t \in Threads : PairStep(t)

SpecPair == Init /\ [][PairNext]_vars

\* The main thread has returned from set on A and has not yet called set on B.
BetweenSets == At(Main, "done") /\ Top(Main).cell = "A" /\ past[Main] = <<>>

\* C12: set on A and the set on B that follows are not atomic together:
\* between the two calls A holds its new value, B is still unwritten, and
\* neither lock is held for the writer, so a reader is let in at either cell.
C12_NoCrossCellAtomicity ==
  BetweenSets =>
    /\ val["A"] = Top(Main).arg
    /\ val["B"] \in {NoVal, Decl["B"].expr}
    /\ ~wbit["A"] /\ ~wbit["B"]
    /\ \A t \in Spawned : At(t, "lock") => ENABLED LockShared(t)

\* The main thread has set A and then B, and a spawned thread's get on A
\* returned the new value of A and its later get on B the old value of B.
C12_Witness ==
  \E t \in Spawned :
    /\ At(Main, "done") /\ Top(Main).cell = "B" /\ Len(past[Main]) = 1
    /\ At(t, "done") /\ Top(t).cell = "B" /\ Len(past[t]) = 1
    /\ past[t][1].cell = "A"
    /\ past[t][1].ret = past[Main][1].arg
    /\ past[t][1].ret # Default
    /\ Top(t).ret = Decl["B"].expr
    /\ Top(t).ret # Top(Main).arg
    /\ val["B"] = Top(Main).arg

(***************************************************************************)
(* C13                                                                     *)
(***************************************************************************)

\* C13: until a set or update takes effect, an initialized cell holds the
\* value of the expression in its declaration, or the type's default when
\* the declaration has none, and a get returns exactly that, for GlobalVar
\* and GlobalConst alike.
C13_InitialValue ==
  \A c \in Cells :
    LET declared == IF Decl[c].hasExpr THEN Decl[c].expr ELSE Default
    IN /\ (/\ lazy[c] = "Init"
           /\ lastWrite[c] = "init"
           /\ c \in VarCells => WriteHolders(c) = {}) => val[c] = declared
       /\ \A t \in Threads :
            (/\ InCall(t) /\ Top(t).cell = c /\ Top(t).op = "get"
             /\ lastWrite[c] = "init"
             /\ \/ c \in VarCells /\ Top(t).pc = "release"
                \/ c \in ConstCells /\ Top(t).pc = "done") =>
              Top(t).ret = declared

\* The first calls on the three cells were get(): the GlobalVar declared
\* without expression gave the default, the one declared "= 3" gave 3, the
\* GlobalConst declared "= 9" gave 9.
C13_Witness ==
  \E t1, t2, t3 \in Threads :
    /\ At(t1, "done") /\ Top(t1).op = "get" /\ Top(t1).cell = "A" /\ Top(t1).ret = 0
    /\ At(t2, "done") /\ Top(t2).op = "get" /\ Top(t2).cell = "B" /\ Top(t2).ret = 3
    /\ At(t3, "done") /\ Top(t3).op = "get" /\ Top(t3).cell = "K" /\ Top(t3).ret = 9
    /\ \A c \in Cells : lastWrite[c] = "init"

(***************************************************************************)
(* C14                                                                     *)
(***************************************************************************)

\* The positions of a call that has not ended.
RunningPcs == {"force", "init", "lock", "drain", "held", "release", "unwind"}
\* The calls on c, made by a thread or by a callback, that are in progress.
InProgress(c) == FramesAt(c, VarOps, RunningPcs)

\* C14: whenever no get, get_with, set or update call is in progress on a
\* GlobalVar, its lock has no reader and no writer, so read() and write()
\* of the next call are granted at once.
C14_ReleasedOnReturn ==
  \A c \in VarCells :
    InProgress(c) = {} =>
      /\ ~wbit[c] /\ readers[c] = 0
      /\ CanLockShared(c)
      /\ CanLockExclusive(c) /\ ReadersDrained(c)

\* A get_with whose callback called get, a set and an update have all
\* returned, and no call is in progress on the cell.
C14_Witness ==
  \E t1, t2, t3 \in Threads :
    /\ At(t1, "done") /\ Top(t1).op = "get_with" /\ Top(t1).inner = "get"
    /\ At(t2, "done") /\ Top(t2).op = "set"
    /\ At(t3, "done") /\ Top(t3).op = "update"
    /\ \A t \in {t1, t2, t3} : Top(t).cell = "A"
    /\ InProgress("A") = {}

(***************************************************************************)
(* C15                                                                     *)
(***************************************************************************)

\* A step of a get or get_with call on an initialized GlobalVar leaves the
\* stored value as it is.
ReadsLeaveValue ==
  \A t \in Threads :
    (/\ InCall(t) /\ Moved(t)
     /\ Top(t).op \in ReadOps /\ Top(t).cell \in VarCells
     /\ lazy[Top(t).cell] = "Init") =>
      val'[Top(t).cell] = val[Top(t).cell]

\* The stored value of an initialized GlobalVar changes only in a step of a
\* set or update call on it.
ChangedOnlyByWrites ==
  \A c \in VarCells :
    (lazy[c] = "Init" /\ val'[c] # val[c]) =>
      \E t \in Threads :
        InCall(t) /\ Moved(t) /\ Top(t).cell = c /\ Top(t).op \in WriteOps

\* The reads that have their result and still hold the lock all have the
\* value the cell holds.
ReadersAgree ==
  \A c \in VarCells :
    \A ti \in FramesAt(c, ReadOps, {"release"}) : stack[ti[1]][ti[2]].ret = val[c]

\* C15: get and get_with on an initialized GlobalVar leave the stored value
\* unchanged; it is changed only by set and update, so all reads between
\* two consecutive writes observe the same value.
C15_ReadsDoNotWrite ==
  /\ []ReadersAgree
  /\ [][ReadsLeaveValue /\ ChangedOnlyByWrites]_vars

\* After set(2), with no other write, a get and a get_with of two other
\* threads have both seen 2, and the cell still holds 2.
C15_Witness ==
  \E t1, t2, t3 \in Threads :
    /\ At(t1, "done") /\ Top(t1).op = "set" /\ Top(t1).cell = "A" /\ Top(t1).arg = 2
    /\ At(t2, "done") /\ Top(t2).op = "get" /\ Top(t2).cell = "A" /\ Top(t2).ret = 2
    /\ At(t3, "done") /\ Top(t3).op = "get_with" /\ Top(t3).cell = "A" /\ Top(t3).ret = 2
    /\ Depth(t3) = 1 /\ Top(t3).inner = "none"
    /\ val["A"] = 2

(***************************************************************************)
(* C16                                                                     *)
(***************************************************************************)

\* The callback of get_with or update panics: the call starts to unwind with
\* its guard still alive.  What an update callback had stored so far stays
\* in the cell.
CallbackPanic(t) ==
  /\ At(t, "held")
  /\ Top(t).op \in {"get_with", "update"}
  /\ Top(t).cell \in VarCells
  /\ LET f == Top(t)
         c == f.cell
     IN /\ stack' = SetTop(t, [f EXCEPT !.pc = "unwind", !.tmp = NoVal])
        /\ committed' = IF f.op = "update" THEN [committed EXCEPT ![c] = val[c]] ELSE committed
        /\ lastWrite' = IF f.op = "update" THEN [lastWrite EXCEPT ![c] = "failed"] ELSE lastWrite
  /\ UNCHANGED <<lazy, val, lockVars, initCount, initBy, past>>

\* An unwinding that forgets the guard: the lock stays as the failed call
\* held it.
Unwind_KeepGuard(t) ==
  /\ At(t, "unwind")
  /\ stack' = SetTop(t, [Top(t) EXCEPT !.pc = "panicked"])
  /\ UNCHANGED <<lazy, val, lockVars, ghostVars>>

\* Unwinding drops the guard, a temporary of the statement, as a return
\* would (parking_lot's RwLock has no poisoning); the panic leaves the call.
Unwind(t) ==
  /\ At(t, "unwind")
  /\ LET f == Top(t)
     IN /\ readers' = IF f.op \in ReadOps THEN ReleasedShared(f.cell) ELSE readers
        /\ wbit' = IF f.op \in WriteOps THEN ReleasedExclusive(f.cell) ELSE wbit
        /\ stack' = SetTop(t, [f EXCEPT !.pc = "panicked"])
  /\ UNCHANGED <<lazy, val, ghostVars>>

\* The program whose callbacks may panic: every thread calls one operation
\* of one GlobalVar.
PanicCall(t) == CallIn(t, {"A"})

PanicStep(t) ==
  \/ PanicCall(t)
  \/ Force(t)
  \/ InitDone(t)
  \/ LockShared(t)
  \/ LockExclusive(t)
  \/ WaitForReaders(t)
  \/ Clone(t)
  \/ CallbackRead(t)
  \/ Assign(t)
  \/ CallbackLoad(t)
  \/ CallbackStore(t)
  \/ CallbackPanic(t)
  \/ Unwind(t)
  \/ UnlockShared(t)
  \/ UnlockExclusive(t)

PanicNext == \E t \in Threads : PanicStep(t)

SpecPanic == Init /\ [][PanicNext]_vars

\* The set and update calls of other threads than t that have the writer bit
\* of c and have not yet dropped their guard.
OthersWriting(t, c) ==
  {ti \in FramesAt(c, WriteOps, {"drain", "held", "release", "unwind"}) : ti[1] # t}

\* Once the failed call has unwound, nothing of it is left in the lock.
ReleasedAfterPanic ==
  \A c \in VarCells :
    InProgress(c) = {} => (~wbit[c] /\ readers[c] = 0)

\* A call is refused the lock only because of a call of another thread that
\* is in progress, never because of one that has failed; and some call in
\* progress can always go on.
NotPoisoned ==
  /\ \A t \in Threads :
       (At(t, "lock") /\ ~ENABLED LockShared(t) /\ ~ENABLED LockExclusive(t)) =>
         OthersWriting(t, Top(t).cell) # {}
  /\ (\E c \in VarCells : InProgress(c) # {}) =>
       \E t \in Threads : InCall(t) /\ ENABLED PanicStep(t)

\* C16: after the callback of update or get_with panicked on an initialized
\* GlobalVar, the access the call held is released and the lock is not
\* poisoned: calls of any thread still acquire it and go on, and reads see
\* the value the failed callback left in the cell.
C16_PanicReleases ==
  /\ [](ReleasedAfterPanic /\ NotPoisoned /\ ReadersSeeCommitted)
  /\ [][ResultIsCommitted]_vars

\* An update callback panicked after the first of its two "+= 1"; later a
\* get of another thread returned the value it left, 1, and a set of a third
\* thread completed.
C16_Witness ==
  \E t1, t2, t3 \in Threads :
    /\ At(t1, "panicked") /\ Top(t1).op = "update" /\ Top(t1).arg = 2 /\ Top(t1).k = 1
    /\ At(t2, "done") /\ Top(t2).op = "get" /\ Top(t2).ret = Default + 1
    /\ At(t3, "done") /\ Top(t3).op = "set" /\ val["A"] = Top(t3).arg
    /\ initBy["A"] = "update"
    /\ lastWrite["A"] = "set"
    /\ ~wbit["A"] /\ readers["A"] = 0

====
